---- MODULE Spec2Model ----
(***************************************************************************)
(* A model of analyze_hotspots.py (git-detective): the Hotspot Scorer      *)
(* (calculate_hotspots), the Pattern Matcher (should_exclude), the history *)
(* extractors (get_revision_frequency, get_churn_data, get_author_count,   *)
(* get_commit_messages, count_lines_of_code), the hierarchy builder        *)
(* (build_hierarchy), the result cache (load_cache, save_cache,            *)
(* clear_cache) and the pipeline of main.                                  *)
(*                                                                         *)
(* Floating-point values that the program rounds to 4 decimal places       *)
(* (hotspot_score, norm_revisions) are carried as integers in units of     *)
(* 1/10000, so 1.0 is 10000 and 0.26 is 2600.                              *)
(***************************************************************************)
EXTENDS Integers, Sequences, FiniteSets, TLC

VARIABLES
    revisions,   \* calculate_hotspots argument: file -> revision count
    loc,         \* calculate_hotspots argument: file -> line count
    churn,       \* calculate_hotspots argument: None or file -> [added, deleted]
    authors,     \* calculate_hotspots argument: None or file -> author count
    calls,       \* outcomes of the calls of calculate_hotspots made so far
    filepath,            \* should_exclude argument
    exclusion_patterns,  \* should_exclude argument
    excluded,            \* result of should_exclude: "none" before the call
    query,       \* the extractor that runs: "revisions", "churn", "authors",
                 \* "commits" (the four history queries) or "loc"
    gitOutcome,  \* how the git subprocess of run_git_command ends
    history,     \* the commits git log reports, newest first
    tracked,     \* the paths git ls-files reports
    disk,        \* path -> what is on disk under that path
    exclusions,  \* the exclusions argument of the extractor
    output,      \* the lines of the value of run_git_command, None before
                 \* the call and when it returned None
    pos,         \* index of the next line of output the loop reads
    acc,         \* the dict the loop fills: file_revisions, file_churn,
                 \* file_authors, file_commits or file_loc
    current,     \* current_author or current_commit
    pc,          \* "start", "loop", "returned" or "raised"
    entries,     \* build_hierarchy argument: the list of hotspot entries
    nodes,       \* the nodes created below root, in creation order
    nextId,      \* the next node identity
    hpos,        \* index of the entry the loop of build_hierarchy reads
    hpc,         \* "idle", "loop", "returned" or "raised" (KeyError)
    repoKind,    \* what args.repo_path names: "not_a_directory",
                 \* "no_git_dir" or "repository"
    args,        \* the command line flags --cache, --no-cache, --clear-cache
    cacheDir,    \* CACHE_DIR: "ok", or "uncreatable" (os.makedirs raises)
    cacheFiles,  \* cache key -> the cache file of that key
    artifact,    \* hotspot_data.json in the output directory, None if absent
    found,       \* cacheFiles and artifact as the run found them
    cached_data, \* main's local variable
    cache_valid, \* main's local variable
    data,        \* main's local variable, None until assembled
    mpc          \* main's position: "idle", "start", "cache", "analyse",
                 \* "save", "write", "done", "exit1" or "crashed"

scorerVars == <<revisions, loc, churn, authors, calls>>
matcherVars == <<filepath, exclusion_patterns, excluded>>
historyVars == <<query, gitOutcome, history, tracked, disk, exclusions,
                 output, pos, acc, current, pc>>

hierarchyVars == <<entries, nodes, nextId, hpos, hpc>>
mainVars == <<repoKind, args, cacheDir, cacheFiles, artifact, found,
              cached_data, cache_valid, data, mpc>>
laterVars == <<hierarchyVars, mainVars>>

vars == <<revisions, loc, churn, authors, calls,
          filepath, exclusion_patterns, excluded,
          query, gitOutcome, history, tracked, disk, exclusions,
          output, pos, acc, current, pc,
          entries, nodes, nextId, hpos, hpc,
          repoKind, args, cacheDir, cacheFiles, artifact, found,
          cached_data, cache_valid, data, mpc>>

\* an optional argument: Python's None, or a dict
None == [isNone |-> TRUE, value |-> <<>>]
Some(m) == [isNone |-> FALSE, value |-> m]

\* truth value of an optional dict: None and the empty dict are both falsy
Truthy(o) == ~o.isNone /\ DOMAIN o.value # {}

(***************************************************************************)
(* Bounds of the model                                                     *)
(***************************************************************************)
MaxCalls == 2

Files == {"a.py", "b.py", "c.py"}
RevVals == {0, 2, 3, 10}
LocVals == {9, 10, 20, 50}

ChurnInputs == {None, Some([f \in {"a.py"} |-> [added |-> 3, deleted |-> 1]])}
AuthorInputs == {None, Some([f \in {"a.py", "b.py"} |-> IF f = "a.py" THEN 1 ELSE 2])}

(***************************************************************************)
(* Helpers                                                                 *)
(***************************************************************************)
Range(s) == {s[i] : i \in 1..Len(s)}

\* max() over the values of a non-empty map
MaxValue(m) == CHOOSE v \in {m[k] : k \in DOMAIN m} :
                   \A k \in DOMAIN m : m[k] <= v

\* The orders in which a Python set with elements S can be iterated:
\* every sequence listing each element exactly once.
Orderings(S) == {s \in [1..Cardinality(S) -> S] : Range(s) = S}

\* round(num/den, 4) in units of 1/10000 for num >= 0 and den > 0,
\* ties to the even neighbour.
RoundHalfEven(num, den) ==
    LET q == num \div den
        r == num % den
    IN  IF 2 * r < den THEN q
        ELSE IF 2 * r > den THEN q + 1
        ELSE IF q % 2 = 0 THEN q ELSE q + 1

Scale == 10000
WeightRevisions == 7
WeightLoc == 3
MinLines == 10

(***************************************************************************)
(* calculate_hotspots                                                      *)
(***************************************************************************)
\* min() in place of max()
MinValue(m) == CHOOSE v \in {m[k] : k \in DOMAIN m} :
                   \A k \in DOMAIN m : v <= m[k]

max_revisions_min(revs) == IF DOMAIN revs # {} THEN MinValue(revs) ELSE 1

max_revisions(revs) == IF DOMAIN revs # {} THEN MaxValue(revs) ELSE 1

max_loc(lc) == IF DOMAIN lc # {} THEN MaxValue(lc) ELSE 1

common_files(revs, lc) == DOMAIN revs \cap DOMAIN lc

\* round(rev_count / max_revisions, 4)
norm_revisions(rev_count, maxR) == RoundHalfEven(Scale * rev_count, maxR)

\* the two weights exchanged
hotspot_score_swapped(rev_count, lines, maxR, maxL) ==
    RoundHalfEven(WeightLoc * (Scale \div 10) * rev_count * maxL
                    + WeightRevisions * (Scale \div 10) * lines * maxR,
                  maxR * maxL)

\* round(norm_revisions * 0.7 + norm_loc * 0.3, 4)
hotspot_score(rev_count, lines, maxR, maxL) ==
    RoundHalfEven(WeightRevisions * (Scale \div 10) * rev_count * maxL
                    + WeightLoc * (Scale \div 10) * lines * maxR,
                  maxR * maxL)

\* the churn fields are attached when churn is truthy and has the file
WithChurn(entry, ch) ==
    IF Truthy(ch) /\ entry.file \in DOMAIN ch.value
    THEN [k \in DOMAIN entry \cup {"churn_added", "churn_deleted", "total_churn"} |->
            IF k = "churn_added" THEN ch.value[entry.file].added
            ELSE IF k = "churn_deleted" THEN ch.value[entry.file].deleted
            ELSE IF k = "total_churn"
                 THEN ch.value[entry.file].added + ch.value[entry.file].deleted
            ELSE entry[k]]
    ELSE entry

\* the authors field is attached when authors is truthy and has the file
WithAuthors(entry, au) ==
    IF Truthy(au) /\ entry.file \in DOMAIN au.value
    THEN [k \in DOMAIN entry \cup {"authors"} |->
            IF k = "authors" THEN au.value[entry.file] ELSE entry[k]]
    ELSE entry

Entry(f, revs, lc, ch, au) ==
    WithAuthors(
      WithChurn([file |-> f,
                 revisions |-> revs[f],
                 lines |-> lc[f],
                 hotspot_score |-> hotspot_score(revs[f], lc[f],
                                                 max_revisions(revs), max_loc(lc)),
                 norm_revisions |-> norm_revisions(revs[f], max_revisions(revs))],
                ch),
      au)

\* the files for which the loop body reaches the division
Scored(revs, lc) == {f \in common_files(revs, lc) : ~(lc[f] < MinLines)}

\* rev_count / max_revisions raises ZeroDivisionError when max_revisions is 0
\* (lines / max_loc cannot: a scored file has lines >= 10, so max_loc >= 10)
Raises(revs, lc) == Scored(revs, lc) # {} /\ max_revisions(revs) = 0

\* the small-file test off by one: lines <= 10 skipped
RECURSIVE Loop_skip10(_, _, _, _, _)
Loop_skip10(order, revs, lc, ch, au) ==
    IF order = <<>> THEN <<>>
    ELSE LET f == Head(order)
             rest == Loop_skip10(Tail(order), revs, lc, ch, au)
         IN  IF lc[f] <= MinLines THEN rest
             ELSE <<Entry(f, revs, lc, ch, au)>> \o rest

\* the for loop over common_files, visited in the given order
RECURSIVE Loop(_, _, _, _, _)
Loop(order, revs, lc, ch, au) ==
    IF order = <<>> THEN <<>>
    ELSE LET f == Head(order)
             rest == Loop(Tail(order), revs, lc, ch, au)
         IN  IF lc[f] < MinLines THEN rest
             ELSE <<Entry(f, revs, lc, ch, au)>> \o rest

\* list.sort(key=hotspot_score, reverse=True): stable, so entries with equal
\* keys keep the order they were appended in
RECURSIVE InsertDesc(_, _)
InsertDesc(e, sorted) ==
    IF sorted = <<>> THEN <<e>>
    ELSE IF Head(sorted).hotspot_score >= e.hotspot_score
         THEN <<Head(sorted)>> \o InsertDesc(e, Tail(sorted))
         ELSE <<e>> \o sorted

\* reverse=True forgotten: ascending stable sort
RECURSIVE InsertAsc(_, _)
InsertAsc(e, sorted) ==
    IF sorted = <<>> THEN <<e>>
    ELSE IF Head(sorted).hotspot_score <= e.hotspot_score
         THEN <<Head(sorted)>> \o InsertAsc(e, Tail(sorted))
         ELSE <<e>> \o sorted

RECURSIVE SortDesc_ascending(_)
SortDesc_ascending(s) ==
    IF s = <<>> THEN <<>>
    ELSE InsertAsc(s[Len(s)], SortDesc_ascending(SubSeq(s, 1, Len(s) - 1)))

RECURSIVE SortDesc(_)
SortDesc(s) ==
    IF s = <<>> THEN <<>>
    ELSE InsertDesc(s[Len(s)], SortDesc(SubSeq(s, 1, Len(s) - 1)))

\* the loop run over every key of loc, with revisions.get(file, 1)
calculate_hotspots_all_loc(order, revs, lc, ch, au) ==
    LET padded == [f \in DOMAIN lc |-> IF f \in DOMAIN revs THEN revs[f] ELSE 1]
        all == CHOOSE o \in Orderings(DOMAIN lc) : TRUE
    IN  SortDesc(Loop(all, padded, lc, ch, au))

calculate_hotspots(order, revs, lc, ch, au) ==
    SortDesc(Loop(order, revs, lc, ch, au))

(***************************************************************************)
(* State machine of the scorer: the inputs are fixed by Init, and          *)
(* calculate_hotspots is called on them up to MaxCalls times.  Each call   *)
(* iterates the set common_files in an order of its own (the iteration     *)
(* order of a set of str depends on the interpreter's string hash seed).   *)
(***************************************************************************)
PartialMaps(S, V) == UNION {[D -> V] : D \in SUBSET S}

InitMatcherIdle ==
    /\ filepath = <<>>
    /\ exclusion_patterns = <<>>
    /\ excluded = "none"

InitHierarchyIdle ==
    /\ entries = <<>>
    /\ nodes = <<>>
    /\ nextId = 1
    /\ hpos = 0
    /\ hpc = "idle"

InitMainIdle ==
    /\ repoKind = "none"
    /\ args = <<>>
    /\ cacheDir = "ok"
    /\ cacheFiles = <<>>
    /\ artifact = None
    /\ found = <<>>
    /\ cached_data = None
    /\ cache_valid = FALSE
    /\ data = None
    /\ mpc = "idle"

InitLaterIdle == InitHierarchyIdle /\ InitMainIdle

InitHistoryIdle ==
    /\ query = "none"
    /\ gitOutcome = "none"
    /\ history = <<>>
    /\ tracked = <<>>
    /\ disk = <<>>
    /\ exclusions = <<>>
    /\ output = None
    /\ pos = 0
    /\ acc = <<>>
    /\ current = None
    /\ pc = "idle"

Init ==
    /\ revisions \in PartialMaps(Files, RevVals)
    /\ loc \in PartialMaps(Files, LocVals)
    /\ churn \in ChurnInputs
    /\ authors \in AuthorInputs
    /\ calls = <<>>
    /\ InitMatcherIdle
    /\ InitHistoryIdle
    /\ InitLaterIdle

CallReturns ==
    /\ Len(calls) < MaxCalls
    /\ ~Raises(revisions, loc)
    /\ \E order \in Orderings(common_files(revisions, loc)) :
         calls' = Append(calls,
                    [status |-> "returned",
                     hotspots |-> calculate_hotspots(order, revisions, loc,
                                                     churn, authors)])
    /\ UNCHANGED <<revisions, loc, churn, authors, matcherVars, historyVars, laterVars>>

CallRaises ==
    /\ Len(calls) < MaxCalls
    /\ Raises(revisions, loc)
    /\ calls' = Append(calls, [status |-> "ZeroDivisionError", hotspots |-> <<>>])
    /\ UNCHANGED <<revisions, loc, churn, authors, matcherVars, historyVars, laterVars>>

Next == CallReturns \/ CallRaises

Spec == Init /\ [][Next]_vars

(***************************************************************************)
(* should_exclude.  A path or a pattern is a sequence of one-character     *)
(* strings.  The alphabet of the model has no `[`, so the character        *)
(* classes of fnmatch do not occur; `*`, `?` and literals do.              *)
(***************************************************************************)
MaxDepth == 3      \* segments of a path
MaxPatLen == 3     \* characters of a pattern

Segments == {<<"a">>, <<"A">>, <<"b">>, <<"b", "a">>}
PatChars == {"a", "A", "*", "?", "/"}
SecondPatterns == {<<"A">>}

\* str.lower() and str.upper() on the letters of the alphabet
LowerChar(c) == IF c = "A" THEN "a" ELSE IF c = "B" THEN "b" ELSE c
UpperChar(c) == IF c = "a" THEN "A" ELSE IF c = "b" THEN "B" ELSE c

lower(s) == [i \in 1..Len(s) |-> LowerChar(s[i])]
upper(s) == [i \in 1..Len(s) |-> UpperChar(s[i])]

\* str.split('/'): empty segments are kept
RECURSIVE split(_)
split(s) ==
    IF \A i \in 1..Len(s) : s[i] # "/" THEN <<s>>
    ELSE LET i == CHOOSE k \in 1..Len(s) :
                      s[k] = "/" /\ \A j \in 1..(k - 1) : s[j] # "/"
         IN  <<SubSeq(s, 1, i - 1)>> \o split(SubSeq(s, i + 1, Len(s)))

\* '/'.join(parts)
RECURSIVE join(_)
join(parts) ==
    IF parts = <<>> THEN <<>>
    ELSE IF Len(parts) = 1 THEN parts[1]
    ELSE parts[1] \o <<"/">> \o join(Tail(parts))

\* str.rstrip('/*'): every trailing `/` and `*` is removed
RECURSIVE rstrip(_)
rstrip(s) ==
    IF s # <<>> /\ s[Len(s)] \in {"/", "*"}
    THEN rstrip(SubSeq(s, 1, Len(s) - 1))
    ELSE s

\* fnmatch.fnmatch on a POSIX system: `*` matches any run of characters, `/`
\* included, `?` matches one character, the whole name must match
RECURSIVE fnmatch(_, _)
fnmatch(name, pat) ==
    IF pat = <<>> THEN name = <<>>
    ELSE IF Head(pat) = "*"
         THEN \/ fnmatch(name, Tail(pat))
              \/ (name # <<>> /\ fnmatch(Tail(name), pat))
    ELSE IF name = <<>> THEN FALSE
    ELSE IF Head(pat) = "?" THEN fnmatch(Tail(name), Tail(pat))
    ELSE Head(pat) = Head(name) /\ fnmatch(Tail(name), Tail(pat))

\* the pattern is compared as written
pattern_lower_as_written(pattern) == pattern

pattern_lower(pattern) == lower(pattern)

\* the `/` of the implicit prefix left out
AnyDepthPattern_no_slash(pl) == <<"*">> \o pl

\* '*/' + pattern_lower
AnyDepthPattern(pl) == <<"*", "/">> \o pl

\* the loop over the path components entered for every path
ComponentMatch_every_path(fp, pl) ==
    LET parts == split(lower(fp))
    IN  \E i \in 1..Len(parts) :
          \/ fnmatch(parts[i], rstrip(pl))
          \/ fnmatch(join(SubSeq(parts, i, Len(parts))), pl)

\* the loop over the path components, entered only if the path has a `/`
ComponentMatch(fp, pl) ==
    /\ \E i \in 1..Len(fp) : fp[i] = "/"
    /\ LET parts == split(lower(fp))
       IN  \E i \in 1..Len(parts) :
             \/ fnmatch(parts[i], rstrip(pl))
             \/ fnmatch(join(SubSeq(parts, i, Len(parts))), pl)

\* the match of the full path left out
MatchesPattern_components_only(fp, pattern) ==
    LET pl == pattern_lower(pattern)
    IN  \/ fnmatch(lower(fp), AnyDepthPattern(pl))
        \/ ComponentMatch(fp, pl)

\* the body of the loop over the patterns: TRUE when it returns True
MatchesPattern(fp, pattern) ==
    LET pl == pattern_lower(pattern)
    IN  \/ fnmatch(lower(fp), pl)
        \/ fnmatch(lower(fp), AnyDepthPattern(pl))
        \/ ComponentMatch(fp, pl)

RECURSIVE should_exclude(_, _)
should_exclude(fp, patterns) ==
    IF patterns = <<>> THEN FALSE
    ELSE IF MatchesPattern(fp, Head(patterns)) THEN TRUE
    ELSE should_exclude(fp, Tail(patterns))

(***************************************************************************)
(* State machine of the matcher: Init draws a path and a pattern list,     *)
(* and should_exclude is applied to them.                                  *)
(***************************************************************************)
\* repository-relative paths of 1..MaxDepth segments
RECURSIVE PathsOfDepth(_)
PathsOfDepth(n) ==
    IF n = 1 THEN Segments
    ELSE {s \o <<"/">> \o p : s \in Segments, p \in PathsOfDepth(n - 1)}

Paths == UNION {PathsOfDepth(n) : n \in 1..MaxDepth}

Patterns == UNION {[1..n -> PatChars] : n \in 0..MaxPatLen}

\* lists of no pattern, of one pattern, and of a shorter pattern followed by
\* a second one
PatternLists ==
    {<<>>} \cup {<<p>> : p \in Patterns}
           \cup {<<p, q>> : p \in {r \in Patterns : Len(r) < MaxPatLen},
                            q \in SecondPatterns}

InitScorerIdle ==
    /\ revisions = <<>>
    /\ loc = <<>>
    /\ churn = None
    /\ authors = None
    /\ calls = <<>>

InitMatcher ==
    /\ filepath \in Paths
    /\ exclusion_patterns \in PatternLists
    /\ excluded = "none"
    /\ InitScorerIdle
    /\ InitHistoryIdle
    /\ InitLaterIdle

ShouldExcludeTrue ==
    /\ excluded = "none"
    /\ should_exclude(filepath, exclusion_patterns)
    /\ excluded' = "True"
    /\ UNCHANGED <<filepath, exclusion_patterns, scorerVars, historyVars, laterVars>>

ShouldExcludeFalse ==
    /\ excluded = "none"
    /\ ~should_exclude(filepath, exclusion_patterns)
    /\ excluded' = "False"
    /\ UNCHANGED <<filepath, exclusion_patterns, scorerVars, historyVars, laterVars>>

NextMatcher == ShouldExcludeTrue \/ ShouldExcludeFalse

SpecMatcher == InitMatcher /\ [][NextMatcher]_vars

(***************************************************************************)
(* The History Extractor and the Size Extractor.  The text git prints is   *)
(* a sequence of lines, each a sequence of one-character strings.  The     *)
(* repository is a list of commits (newest first); the four log formats    *)
(* are rendered from it the way git log prints them.  A commit may carry   *)
(* anomalies the parsers must cope with: a marker payload with fewer than  *)
(* 4 fields, a churn count that is neither a number nor `-`.               *)
(***************************************************************************)
MaxCommits == 2

S_commit == <<"c", "o", "m", "m", "i", "t">>
S_COMMIT == <<"C", "O", "M", "M", "I", "T", ":">>

P_a == <<"a", ".", "p">>                  \* a source file
P_sb == <<"s", "/", "b">>                 \* a file in a directory
P_m == <<"m">>                            \* a file name without `.` or `/`
P_commit == S_commit \o <<".", "p">>      \* a file whose name starts with commit
P_xo == <<"x", ".", "o">>                 \* a file the pattern *.o excludes

A_an == <<"a", "n">>
A_bo == <<"b", "o">>
A_jd == <<"j", ".", "d">>                 \* an author name with a `.`

Queries == {"revisions", "churn", "authors", "commits", "loc"}
HistoryQueries == {"revisions", "churn", "authors", "commits"}

\* subprocess.run: exit status 0, a non-zero exit status (CalledProcessError)
\* or no git executable (FileNotFoundError)
GitOutcomes == {"ok", "empty_repository", "not_a_repository", "command_not_found"}
NonZeroExit == {"empty_repository", "not_a_repository"}

ExclusionSets == {<<>>, << <<"*", ".", "o">> >>}

FileRec(path, added, deleted) == [path |-> path, added |-> added, deleted |-> deleted]

\* the file lists of one commit: one file or two
FileLists(P) ==
    {<<FileRec(f, <<"1">>, <<"1">>)>> : f \in P}
    \cup {<<FileRec(f, <<"1">>, <<"1">>), FileRec(g, <<"1">>, <<"1">>)>> : f \in P, g \in P}

DistinctFileLists(P) == {l \in FileLists(P) : Len(l) = 1 \/ l[1] # l[2]}

CommitsFor(q) ==
    IF q = "revisions"
    THEN {[author |-> A_an, nfields |-> 4, files |-> l] :
            l \in FileLists({P_a, P_commit, P_xo, P_m})}
    ELSE IF q = "churn"
    THEN {[author |-> A_an, nfields |-> 4, files |-> <<FileRec(f, a, d)>>] :
            f \in {P_a, P_xo}, a \in {<<"3">>, <<"-">>, <<"x">>},
            d \in {<<"1", "2">>, <<"-">>, <<"x">>}}
    ELSE IF q = "authors"
    THEN {[author |-> a, nfields |-> 4, files |-> l] :
            a \in {A_an, A_bo, A_jd}, l \in DistinctFileLists({P_a, P_m, P_xo})}
    ELSE {[author |-> A_an, nfields |-> n, files |-> l] :
            n \in {2, 4, 5}, l \in DistinctFileLists({P_a, P_m, P_xo})}

Histories(q) == UNION {[1..n -> CommitsFor(q)] : n \in 0..MaxCommits}

TrackedPaths == {P_a, P_sb, P_xo}
TrackedLists == {t \in UNION {[1..n -> TrackedPaths] : n \in 0..Cardinality(TrackedPaths)} :
                    \A i \in 1..Len(t) : \A j \in 1..Len(t) : i # j => t[i] # t[j]}

\* what is on disk under a tracked path
DiskStates == {[kind |-> "file", lines |-> 12], [kind |-> "missing", lines |-> 0],
               [kind |-> "directory", lines |-> 0], [kind |-> "unreadable", lines |-> 0]}

(***************************************************************************)
(* git log and git ls-files                                                *)
(***************************************************************************)
DigitChars == <<"0", "1", "2", "3", "4", "5", "6", "7", "8", "9">>

\* %h of the i-th commit
HashOf(i) == <<"h", DigitChars[i + 1]>>

\* COMMIT:%h|%aN|%ad|%s, with a payload of nfields `|`-separated fields
MarkerLine(c, i) ==
    S_COMMIT \o HashOf(i) \o <<"|">> \o c.author
       \o (IF c.nfields >= 4 THEN <<"|", "d", "|", "s">> ELSE <<>>)
       \o (IF c.nfields >= 5 THEN <<"|", "t">> ELSE <<>>)

NameLines(c) == [k \in 1..Len(c.files) |-> c.files[k].path]

NumstatLines(c) ==
    [k \in 1..Len(c.files) |->
        c.files[k].added \o <<"\t">> \o c.files[k].deleted \o <<"\t">> \o c.files[k].path]

CommitLines(q, c, i) ==
    IF q = "revisions" THEN NameLines(c)
    ELSE IF q = "churn" THEN NumstatLines(c)
    ELSE IF q = "authors" THEN <<c.author>> \o NameLines(c)
    ELSE <<MarkerLine(c, i)>> \o NameLines(c)

\* stdout.split('\n'): the lines of the commits, a blank line between two
\* commits, and the empty string after the final newline
RECURSIVE LogLines(_, _, _)
LogLines(q, h, i) ==
    IF i > Len(h) THEN << <<>> >>
    ELSE CommitLines(q, h[i], i)
           \o (IF i < Len(h) THEN << <<>> >> ELSE <<>>)
           \o LogLines(q, h, i + 1)

Stdout(q, h, t) == IF q = "loc" THEN t \o << <<>> >> ELSE LogLines(q, h, 1)

\* run_git_command: stdout, or None when the command exits non-zero
run_git_command(outcome, stdout) ==
    IF outcome = "ok" THEN Some(stdout) ELSE None

(***************************************************************************)
(* String operations of the parsers                                        *)
(***************************************************************************)
Whitespace == {" ", "\t", "\r", "\n"}

RECURSIVE lstrip(_)
lstrip(s) == IF s # <<>> /\ Head(s) \in Whitespace THEN lstrip(Tail(s)) ELSE s

RECURSIVE rstripWs(_)
rstripWs(s) ==
    IF s # <<>> /\ s[Len(s)] \in Whitespace
    THEN rstripWs(SubSeq(s, 1, Len(s) - 1))
    ELSE s

\* str.strip()
strip(s) == rstripWs(lstrip(s))

\* str.startswith(prefix)
startswith(s, prefix) ==
    Len(s) >= Len(prefix) /\ SubSeq(s, 1, Len(prefix)) = prefix

\* c in s
Contains(s, c) == \E i \in 1..Len(s) : s[i] = c

\* s.split(sep, maxsplit) for a one-character sep; maxsplit = -1: no limit
RECURSIVE splitOn(_, _, _)
splitOn(s, sep, maxsplit) ==
    IF maxsplit = 0 \/ ~Contains(s, sep) THEN <<s>>
    ELSE LET i == CHOOSE k \in 1..Len(s) :
                      s[k] = sep /\ \A j \in 1..(k - 1) : s[j] # sep
         IN  <<SubSeq(s, 1, i - 1)>>
               \o splitOn(SubSeq(s, i + 1, Len(s)), sep,
                          IF maxsplit > 0 THEN maxsplit - 1 ELSE maxsplit)

IsDigit(c) == \E d \in 1..10 : DigitChars[d] = c
DigitValue(c) == (CHOOSE d \in 1..10 : DigitChars[d] = c) - 1

\* int(s) succeeds: a non-empty run of decimal digits (signs, surrounding
\* white space and underscores do not occur in the model's fields)
IsInt(s) == s # <<>> /\ \A i \in 1..Len(s) : IsDigit(s[i])

RECURSIVE IntValue(_)
IntValue(s) ==
    IF s = <<>> THEN 0
    ELSE 10 * IntValue(SubSeq(s, 1, Len(s) - 1)) + DigitValue(s[Len(s)])

\* d[k] = v
Put(d, k, v) == [x \in DOMAIN d \cup {k} |-> IF x = k THEN v ELSE d[x]]

\* defaultdict: d[k], the default when k is missing
Get(d, k, default) == IF k \in DOMAIN d THEN d[k] ELSE default

(***************************************************************************)
(* The parsers, one loop body each.  A body takes the map built so far     *)
(* (and the current commit's author or record) and one line of output.     *)
(***************************************************************************)
\* get_revision_frequency, the body of the loop over output.split('\n')
revisions_step_unfiltered(file_revisions, rawline, excl) ==
    LET line == strip(rawline)
    IN  IF line # <<>> /\ ~startswith(line, S_commit)
        THEN Put(file_revisions, line, Get(file_revisions, line, 0) + 1)
        ELSE file_revisions

revisions_step_counts_blank(file_revisions, rawline, excl) ==
    LET line == strip(rawline)
    IN  IF ~startswith(line, S_commit) /\ ~should_exclude(line, excl)
        THEN Put(file_revisions, line, Get(file_revisions, line, 0) + 1)
        ELSE file_revisions

revisions_step(file_revisions, rawline, excl) ==
    LET line == strip(rawline)
    IN  IF line # <<>> /\ ~startswith(line, S_commit)
        THEN IF ~should_exclude(line, excl)
             THEN Put(file_revisions, line, Get(file_revisions, line, 0) + 1)
             ELSE file_revisions
        ELSE file_revisions

NoChurn == [added |-> 0, deleted |-> 0]

\* int(field) if field != '-' else 0, where int does not raise
CountOf(field) == IF field = <<"-">> THEN 0 ELSE IntValue(field)

\* int(field) raises ValueError
BadCount(field) == field # <<"-">> /\ ~IsInt(field)

churn_step_dash_fails(file_churn, line, excl) ==
    LET parts == splitOn(line, "\t", -1)
    IN  IF Len(parts) # 3 THEN file_churn
        ELSE IF should_exclude(parts[3], excl) THEN file_churn
        ELSE LET touched == Put(file_churn, parts[3], Get(file_churn, parts[3], NoChurn))
             IN  IF ~IsInt(parts[1]) \/ ~IsInt(parts[2]) THEN touched
                 ELSE Put(touched, parts[3],
                          [added |-> touched[parts[3]].added + IntValue(parts[1]),
                           deleted |-> touched[parts[3]].deleted + IntValue(parts[2])])

\* get_churn_data, the body of the loop.  file_churn[filename] creates the
\* entry of a missing key before int() is evaluated, and the first += is
\* done before the second int() is evaluated.
churn_step(file_churn, line, excl) ==
    LET parts == splitOn(line, "\t", -1)
    IN  IF Len(parts) # 3 THEN file_churn
        ELSE LET added == parts[1]
                 deleted == parts[2]
                 filename == parts[3]
                 touched == Put(file_churn, filename, Get(file_churn, filename, NoChurn))
                 first == Put(touched, filename,
                              [added |-> touched[filename].added + CountOf(added),
                               deleted |-> touched[filename].deleted])
                 second == Put(first, filename,
                               [added |-> first[filename].added,
                                deleted |-> first[filename].deleted + CountOf(deleted)])
             IN  IF should_exclude(filename, excl) THEN file_churn
                 ELSE IF BadCount(added) THEN touched
                 ELSE IF BadCount(deleted) THEN first
                 ELSE second

\* '/' in line or '.' in line
LooksLikePath(line) == Contains(line, "/") \/ Contains(line, ".")

\* the pair <<file_authors, current_author>> after one line
authors_step(file_authors, current_author, rawline, excl) ==
    LET line == strip(rawline)
    IN  IF line = <<>> THEN <<file_authors, current_author>>
        ELSE IF LooksLikePath(line)
        THEN IF Truthy(current_author) /\ ~should_exclude(line, excl)
             THEN <<Put(file_authors, line,
                        Get(file_authors, line, {}) \cup {current_author.value}),
                    current_author>>
             ELSE <<file_authors, current_author>>
        ELSE <<file_authors, Some(line)>>

\* get_author_count, the returned comprehension
author_counts(file_authors) ==
    [f \in DOMAIN file_authors |-> Cardinality(file_authors[f])]

\* the marker's effect on current_commit
parse_marker_keeps_previous(line, current_commit) ==
    LET parts == splitOn(SubSeq(line, 8, Len(line)), "|", 3)
    IN  IF Len(parts) >= 4
        THEN Some([hash |-> parts[1], author |-> parts[2],
                   date |-> parts[3], message |-> parts[4]])
        ELSE current_commit

parse_marker(line, current_commit) ==
    LET parts == splitOn(SubSeq(line, 8, Len(line)), "|", 3)
    IN  IF Len(parts) >= 4
        THEN Some([hash |-> parts[1], author |-> parts[2],
                   date |-> parts[3], message |-> parts[4]])
        ELSE None

\* the pair <<file_commits, current_commit>> after one line
commits_step(file_commits, current_commit, rawline, excl) ==
    LET line == strip(rawline)
    IN  IF line = <<>> THEN <<file_commits, current_commit>>
        ELSE IF startswith(line, S_COMMIT)
        THEN <<file_commits, parse_marker(line, current_commit)>>
        ELSE IF Truthy(current_commit) /\ LooksLikePath(line)
        THEN IF ~should_exclude(line, excl)
             THEN <<Put(file_commits, line,
                        Append(Get(file_commits, line, <<>>), current_commit.value)),
                    current_commit>>
             ELSE <<file_commits, current_commit>>
        ELSE <<file_commits, current_commit>>

\* count_lines_of_code, the body of the loop over the tracked files
loc_step(file_loc, rawline, excl, files) ==
    LET fp == strip(rawline)
    IN  IF fp = <<>> THEN file_loc
        ELSE IF should_exclude(fp, excl) THEN file_loc
        ELSE IF files[fp].kind \in {"missing", "directory"} THEN file_loc
        ELSE IF files[fp].kind = "unreadable" THEN file_loc
        ELSE Put(file_loc, fp, files[fp].lines)

(***************************************************************************)
(* One run of one extractor                                                *)
(***************************************************************************)
InitHistory ==
    /\ InitScorerIdle
    /\ InitMatcherIdle
    /\ InitLaterIdle
    /\ query \in Queries
    /\ gitOutcome \in GitOutcomes
    /\ exclusions \in ExclusionSets
    /\ \/ /\ gitOutcome = "ok"
          /\ query \in HistoryQueries
          /\ history \in Histories(query)
          /\ tracked = <<>>
          /\ disk = <<>>
       \/ /\ gitOutcome = "ok"
          /\ query = "loc"
          /\ history = <<>>
          /\ tracked \in TrackedLists
          /\ disk \in [TrackedPaths -> DiskStates]
       \/ /\ gitOutcome # "ok"
          /\ history = <<>>
          /\ tracked = <<>>
          /\ disk = <<>>
    /\ output = None
    /\ pos = 0
    /\ acc = <<>>
    /\ current = None
    /\ pc = "start"

inputVars == <<query, gitOutcome, history, tracked, disk, exclusions>>

\* subprocess.run finds no git executable: FileNotFoundError is not caught
GitNotFound ==
    /\ pc = "start"
    /\ gitOutcome = "command_not_found"
    /\ pc' = "raised"
    /\ UNCHANGED <<output, pos, acc, current, inputVars, scorerVars, matcherVars, laterVars>>

\* git exits non-zero: run_git_command returns None, the extractor {}
GitFails ==
    /\ pc = "start"
    /\ gitOutcome \in NonZeroExit
    /\ output' = run_git_command(gitOutcome, Stdout(query, history, tracked))
    /\ acc' = <<>>
    /\ pc' = "returned"
    /\ UNCHANGED <<pos, current, inputVars, scorerVars, matcherVars, laterVars>>

GitSucceeds ==
    /\ pc = "start"
    /\ gitOutcome = "ok"
    /\ output' = run_git_command(gitOutcome, Stdout(query, history, tracked))
    /\ pos' = 1
    /\ acc' = <<>>
    /\ current' = None
    /\ pc' = "loop"
    /\ UNCHANGED <<inputVars, scorerVars, matcherVars, laterVars>>

InLoop(q) ==
    /\ pc = "loop"
    /\ query = q
    /\ pos <= Len(output.value)

StepRevisions ==
    /\ InLoop("revisions")
    /\ acc' = revisions_step(acc, output.value[pos], exclusions)
    /\ pos' = pos + 1
    /\ UNCHANGED <<output, current, pc, inputVars, scorerVars, matcherVars, laterVars>>

StepChurn ==
    /\ InLoop("churn")
    /\ acc' = churn_step(acc, output.value[pos], exclusions)
    /\ pos' = pos + 1
    /\ UNCHANGED <<output, current, pc, inputVars, scorerVars, matcherVars, laterVars>>

StepAuthors ==
    /\ InLoop("authors")
    /\ acc' = authors_step(acc, current, output.value[pos], exclusions)[1]
    /\ current' = authors_step(acc, current, output.value[pos], exclusions)[2]
    /\ pos' = pos + 1
    /\ UNCHANGED <<output, pc, inputVars, scorerVars, matcherVars, laterVars>>

StepCommits ==
    /\ InLoop("commits")
    /\ acc' = commits_step(acc, current, output.value[pos], exclusions)[1]
    /\ current' = commits_step(acc, current, output.value[pos], exclusions)[2]
    /\ pos' = pos + 1
    /\ UNCHANGED <<output, pc, inputVars, scorerVars, matcherVars, laterVars>>

StepLoc ==
    /\ InLoop("loc")
    /\ acc' = loc_step(acc, output.value[pos], exclusions, disk)
    /\ pos' = pos + 1
    /\ UNCHANGED <<output, current, pc, inputVars, scorerVars, matcherVars, laterVars>>

\* the return statement after the loop
Return ==
    /\ pc = "loop"
    /\ pos > Len(output.value)
    /\ acc' = IF query = "authors" THEN author_counts(acc) ELSE acc
    /\ pc' = "returned"
    /\ UNCHANGED <<output, pos, current, inputVars, scorerVars, matcherVars, laterVars>>

NextHistory ==
    \/ GitNotFound
    \/ GitFails
    \/ GitSucceeds
    \/ StepRevisions
    \/ StepChurn
    \/ StepAuthors
    \/ StepCommits
    \/ StepLoc
    \/ Return

SpecHistory == InitHistory /\ [][NextHistory]_vars

(***************************************************************************)
(* The Hierarchy Builder (build_hierarchy).  The tree under construction   *)
(* is the sequence of the nodes below root in creation order; a node       *)
(* carries its identity, the identity of its parent (0 is root) and its    *)
(* dict without the children.  A directory node has the key children, a    *)
(* leaf has not.  The children of a node are the nodes naming it as        *)
(* parent: current['children'][name] is the child with that name.          *)
(***************************************************************************)
MaxEntries == 3

H_a == <<"a">>
H_b == <<"b">>
H_ab == <<"a", "/", "b">>
H_ac == <<"a", "/", "c">>
H_abc == <<"a", "/", "b", "/", "c">>

HierarchyPaths == {H_a, H_b, H_ab, H_ac, H_abc}

\* a hotspot entry as calculate_hotspots builds it; the line counts tell
\* the entries of one list apart
HotspotEntry(f, i) ==
    [file |-> f, revisions |-> i, lines |-> 10 * i,
     hotspot_score |-> Scale, norm_revisions |-> Scale]

HotspotLists ==
    UNION {{[i \in 1..n |-> HotspotEntry(fs[i], i)] : fs \in [1..n -> HierarchyPaths]} :
              n \in 0..MaxEntries}

RootId == 0

DirNode(id, parent, part) ==
    [id |-> id, parent |-> parent, isLeaf |-> FALSE, data |-> [name |-> part]]

\* the optional fields copied to the leaf, under the leaf's key
LeafOptional == [authors |-> "authors", total_churn |-> "churn", commits |-> "commits"]

\* the leaf keeps only the file name as its fullPath
LeafData_name_as_path(entry, filename) ==
    [name |-> filename, fullPath |-> filename, size |-> entry.lines,
     revisions |-> entry.revisions, hotspot_score |-> entry.hotspot_score,
     norm_revisions |-> entry.norm_revisions]

LeafData(entry, filename) ==
    LET copied == {k \in DOMAIN LeafOptional : k \in DOMAIN entry}
        key(k) == CHOOSE o \in copied : LeafOptional[o] = k
    IN  [k \in {"name", "fullPath", "size", "revisions", "hotspot_score",
                "norm_revisions"} \cup {LeafOptional[o] : o \in copied} |->
            IF k = "name" THEN filename
            ELSE IF k = "fullPath" THEN entry.file
            ELSE IF k = "size" THEN entry.lines
            ELSE IF k \in {"revisions", "hotspot_score", "norm_revisions"} THEN entry[k]
            ELSE entry[key(k)]]

LeafNode(id, parent, entry, filename) ==
    [id |-> id, parent |-> parent, isLeaf |-> TRUE, data |-> LeafData(entry, filename)]

NodeOf(ns, id) == ns[CHOOSE i \in 1..Len(ns) : ns[i].id = id]

\* 'children' in node: root and the directory nodes
HasChildrenKey(ns, id) == id = RootId \/ ~NodeOf(ns, id).isLeaf

\* the positions of the children of node id that are called name
ChildrenNamed(ns, id, name) ==
    {i \in 1..Len(ns) : ns[i].parent = id /\ ns[i].data.name = name}

\* node id lies below the node anc
RECURSIVE IsBelow(_, _, _)
IsBelow(ns, id, anc) ==
    IF id = RootId THEN FALSE
    ELSE LET p == NodeOf(ns, id).parent
         IN  p = anc \/ IsBelow(ns, p, anc)

\* the directory loop with a new node for every part, found or not
RECURSIVE Navigate_always_new(_, _, _, _)
Navigate_always_new(ns, fresh, cur, parts) ==
    IF parts = <<>> THEN [raised |-> FALSE, nodes |-> ns, fresh |-> fresh, current |-> cur]
    ELSE IF ~HasChildrenKey(ns, cur)
    THEN [raised |-> TRUE, nodes |-> ns, fresh |-> fresh, current |-> cur]
    ELSE Navigate_always_new(Append(ns, DirNode(fresh, cur, Head(parts))),
                             fresh + 1, fresh, Tail(parts))

\* for i, part in enumerate(path_parts[:-1]): find or create the directory.
\* current['children'] raises KeyError when current is a leaf.
RECURSIVE Navigate(_, _, _, _)
Navigate(ns, fresh, cur, parts) ==
    IF parts = <<>> THEN [raised |-> FALSE, nodes |-> ns, fresh |-> fresh, current |-> cur]
    ELSE IF ~HasChildrenKey(ns, cur)
    THEN [raised |-> TRUE, nodes |-> ns, fresh |-> fresh, current |-> cur]
    ELSE IF ChildrenNamed(ns, cur, Head(parts)) = {}
    THEN Navigate(Append(ns, DirNode(fresh, cur, Head(parts))),
                  fresh + 1, fresh, Tail(parts))
    ELSE Navigate(ns, fresh,
                  ns[CHOOSE i \in ChildrenNamed(ns, cur, Head(parts)) : TRUE].id,
                  Tail(parts))

\* d[name] = leaf: a new key is appended, the value of an existing key is
\* replaced in place and what hung below the old value is gone
SetChild(ns, cur, leaf) ==
    LET old == ChildrenNamed(ns, cur, leaf.data.name)
    IN  IF old = {} THEN Append(ns, leaf)
        ELSE LET o == CHOOSE i \in old : TRUE
                 replaced == [i \in 1..Len(ns) |-> IF i = o THEN leaf ELSE ns[i]]
             IN  SelectSeq(replaced, LAMBDA n : n.id = leaf.id \/ ~IsBelow(ns, n.id, ns[o].id))

\* the body of the loop over hotspots, for one entry
insert_entry(ns, fresh, entry) ==
    LET path_parts == split(entry.file)
        filename == path_parts[Len(path_parts)]
        walked == Navigate(ns, fresh, RootId, SubSeq(path_parts, 1, Len(path_parts) - 1))
    IN  IF walked.raised \/ ~HasChildrenKey(walked.nodes, walked.current)
        THEN [raised |-> TRUE, nodes |-> walked.nodes, fresh |-> walked.fresh]
        ELSE [raised |-> FALSE,
              nodes |-> SetChild(walked.nodes, walked.current,
                                 LeafNode(walked.fresh, walked.current, entry, filename)),
              fresh |-> walked.fresh + 1]

\* the children of node id, in the order of the children dict
RECURSIVE ChildrenFrom(_, _, _)
ChildrenFrom(ns, id, i) ==
    IF i > Len(ns) THEN <<>>
    ELSE (IF ns[i].parent = id THEN <<ns[i].id>> ELSE <<>>) \o ChildrenFrom(ns, id, i + 1)

\* convert_to_list(node): the node's dict with children as a list; a
\* children dict that is empty is deleted
RECURSIVE convert_to_list(_, _)
convert_to_list(ns, id) ==
    LET own == IF id = RootId THEN [name |-> "root"] ELSE NodeOf(ns, id).data
        kids == ChildrenFrom(ns, id, 1)
    IN  IF ~HasChildrenKey(ns, id) \/ kids = <<>> THEN own
        ELSE [k \in DOMAIN own \cup {"children"} |->
                 IF k = "children"
                 THEN [j \in 1..Len(kids) |-> convert_to_list(ns, kids[j])]
                 ELSE own[k]]

InitHierarchy ==
    /\ InitScorerIdle
    /\ InitMatcherIdle
    /\ InitHistoryIdle
    /\ InitMainIdle
    /\ entries \in HotspotLists
    /\ nodes = <<>>
    /\ nextId = 1
    /\ hpos = 1
    /\ hpc = "loop"

otherVars == <<scorerVars, matcherVars, historyVars, mainVars>>

\* one entry added to the tree
InsertEntry ==
    /\ hpc = "loop"
    /\ hpos <= Len(entries)
    /\ ~insert_entry(nodes, nextId, entries[hpos]).raised
    /\ nodes' = insert_entry(nodes, nextId, entries[hpos]).nodes
    /\ nextId' = insert_entry(nodes, nextId, entries[hpos]).fresh
    /\ hpos' = hpos + 1
    /\ UNCHANGED <<entries, hpc, otherVars>>

\* the entry's path runs through a leaf: KeyError('children')
InsertRaises ==
    /\ hpc = "loop"
    /\ hpos <= Len(entries)
    /\ insert_entry(nodes, nextId, entries[hpos]).raised
    /\ nodes' = insert_entry(nodes, nextId, entries[hpos]).nodes
    /\ nextId' = insert_entry(nodes, nextId, entries[hpos]).fresh
    /\ hpc' = "raised"
    /\ UNCHANGED <<entries, hpos, otherVars>>

\* return convert_to_list(root): the children dicts become lists, in the
\* order of the dict
ReturnTree ==
    /\ hpc = "loop"
    /\ hpos > Len(entries)
    /\ hpc' = "returned"
    /\ UNCHANGED <<entries, nodes, nextId, hpos, otherVars>>

NextHierarchy == InsertEntry \/ InsertRaises \/ ReturnTree

SpecHierarchy == InitHierarchy /\ [][NextHierarchy]_vars

(***************************************************************************)
(* The extractors as whole functions: the loop bodies above folded over    *)
(* the lines git prints for a history, and build_hierarchy as the fold of  *)
(* insert_entry over a list of entries.                                    *)
(***************************************************************************)
RECURSIVE FoldLines(_, _, _, _, _, _)
FoldLines(q, lines, a, cur, excl, files) ==
    IF lines = <<>> THEN a
    ELSE LET line == Head(lines)
             a2 == IF q = "revisions" THEN revisions_step(a, line, excl)
                   ELSE IF q = "churn" THEN churn_step(a, line, excl)
                   ELSE IF q = "authors" THEN authors_step(a, cur, line, excl)[1]
                   ELSE IF q = "commits" THEN commits_step(a, cur, line, excl)[1]
                   ELSE loc_step(a, line, excl, files)
             cur2 == IF q = "authors" THEN authors_step(a, cur, line, excl)[2]
                     ELSE IF q = "commits" THEN commits_step(a, cur, line, excl)[2]
                     ELSE cur
         IN  FoldLines(q, Tail(lines), a2, cur2, excl, files)

get_revision_frequency(h, excl) ==
    FoldLines("revisions", Stdout("revisions", h, <<>>), <<>>, None, excl, <<>>)

get_churn_data(h, excl) ==
    FoldLines("churn", Stdout("churn", h, <<>>), <<>>, None, excl, <<>>)

get_author_count(h, excl) ==
    author_counts(FoldLines("authors", Stdout("authors", h, <<>>), <<>>, None, excl, <<>>))

get_commit_messages(h, excl) ==
    FoldLines("commits", Stdout("commits", h, <<>>), <<>>, None, excl, <<>>)

count_lines_of_code(trk, files, excl) ==
    FoldLines("loc", Stdout("loc", <<>>, trk), <<>>, None, excl, files)

\* the result of build_hierarchy: the tree, or KeyError
RECURSIVE InsertAll(_, _, _)
InsertAll(ns, fresh, es) ==
    IF es = <<>> THEN [raised |-> FALSE, nodes |-> ns]
    ELSE LET r == insert_entry(ns, fresh, Head(es))
         IN  IF r.raised THEN [raised |-> TRUE, nodes |-> r.nodes]
             ELSE InsertAll(r.nodes, r.fresh, Tail(es))

build_hierarchy(es) ==
    LET r == InsertAll(<<>>, RootId + 1, es)
    IN  IF r.raised THEN None ELSE Some(convert_to_list(r.nodes, RootId))

(***************************************************************************)
(* The cache and main.  One run of main over a repository, a cache         *)
(* directory and an output directory as earlier runs and the environment   *)
(* left them.  The head commit identifier stands for the history it names  *)
(* and a cache key for the parameters it hashes.                           *)
(***************************************************************************)
RepoPath == <<"/", "r">>

X_o == <<"*", ".", "o">>
X_m == <<"m">>

\* --exclude given in two orders, same patterns
MainExclusions == {<<X_o, X_m>>, <<X_m, X_o>>}

\* the exclusions of another analysis of the same repository
OtherExclusions == <<X_o>>

CodePoint == [c \in {"*", ".", "/", "m", "o"} |->
                 IF c = "*" THEN 42 ELSE IF c = "." THEN 46 ELSE IF c = "/" THEN 47
                 ELSE IF c = "m" THEN 109 ELSE 111]

\* a < b for Python strings
RECURSIVE StrLess(_, _)
StrLess(a, b) ==
    IF b = <<>> THEN FALSE
    ELSE IF a = <<>> THEN TRUE
    ELSE IF Head(a) = Head(b) THEN StrLess(Tail(a), Tail(b))
    ELSE CodePoint[Head(a)] < CodePoint[Head(b)]

RECURSIVE InsertSorted(_, _)
InsertSorted(x, l) ==
    IF l = <<>> THEN <<x>>
    ELSE IF StrLess(x, Head(l)) THEN <<x>> \o l
    ELSE <<Head(l)>> \o InsertSorted(x, Tail(l))

\* the key built from the exclusions as given, unsorted
generate_cache_key_unsorted(repo_path, since_date, excl) ==
    [repo |-> repo_path,
     since |-> IF since_date.isNone THEN <<>> ELSE since_date.value,
     exclusions |-> excl]

\* sorted(exclusions)
RECURSIVE sorted(_)
sorted(l) == IF l = <<>> THEN <<>> ELSE InsertSorted(l[Len(l)], sorted(SubSeq(l, 1, Len(l) - 1)))

\* the parameters generate_cache_key hashes
generate_cache_key(repo_path, since_date, excl) ==
    [repo |-> repo_path,
     since |-> IF since_date.isNone THEN <<>> ELSE since_date.value,
     exclusions |-> sorted(excl)]

\* git rev-parse HEAD: fails when there is no commit
get_git_head_hash(h) == IF h = <<>> THEN None ELSE Some(h)

\* git rev-list --count HEAD: fails when there is no commit
get_git_commit_count(h) == IF h = <<>> THEN None ELSE Some(Len(h))

C_bo_ab == [author |-> A_bo, nfields |-> 4,
            files |-> <<FileRec(P_a, <<"3">>, <<"1">>), FileRec(P_sb, <<"1">>, <<"1">>)>>]
C_an_jm == [author |-> A_an, nfields |-> 4,
            files |-> <<FileRec(A_jd, <<"1">>, <<"1">>), FileRec(P_m, <<"1">>, <<"1">>)>>]
C_jd_a == [author |-> A_jd, nfields |-> 4, files |-> <<FileRec(P_a, <<"1">>, <<"1">>)>>]

MainCommits == {C_bo_ab, C_an_jm, C_jd_a}

MainHistories ==
    {<<>>} \cup {<<c>> : c \in MainCommits} \cup
    UNION {{<<c, d>> : d \in MainCommits \ {c}} : c \in MainCommits}

MainTracked == <<P_a, A_jd, P_sb, P_m>>

TextFile(n) == [kind |-> "file", lines |-> n]

\* the working tree: a.p has 12 or 20 lines
MainDisks ==
    {[f \in {P_a, A_jd, P_sb, P_m} |->
         IF f = P_a THEN TextFile(n)
         ELSE IF f = A_jd THEN TextFile(14)
         ELSE IF f = P_sb THEN TextFile(16)
         ELSE TextFile(18)] : n \in {12, 20}}

\* the entries with h['commits'] = commit_messages.get(h['file'], [])
WithCommits(hs, commit_messages) ==
    [i \in 1..Len(hs) |->
        [k \in DOMAIN hs[i] \cup {"commits"} |->
            IF k = "commits"
            THEN (IF hs[i].file \in DOMAIN commit_messages
                  THEN commit_messages[hs[i].file] ELSE <<>>)
            ELSE hs[i][k]]]

\* steps 1 to 4 of main: the hotspot lists a fresh analysis can produce,
\* one for each order in which the set common_files may be iterated
FreshResults(h, files, excl) ==
    UNION {{WithCommits(calculate_hotspots(order, revs, lc, Some(ch), Some(au)), cm) :
               order \in Orderings(common_files(revs, lc))} :
             revs \in {get_revision_frequency(h, excl)},
             lc \in {count_lines_of_code(MainTracked, files, excl)},
             au \in {get_author_count(h, excl)},
             ch \in {get_churn_data(h, excl)},
             cm \in {get_commit_messages(h, excl)}}

\* steps 5 and 6: data
Assemble(hs) == [hotspots |-> hs, hierarchy |-> build_hierarchy(hs).value]

AbsentFile == [kind |-> "absent", content |-> <<>>]
JsonFile(c) == [kind |-> "json", content |-> c]

\* cache files the program did not leave as they are: no permission or a
\* directory in the file's place (IOError), cut short (JSONDecodeError),
\* bytes that are not UTF-8 (UnicodeDecodeError)
DamagedFiles == {[kind |-> k, content |-> <<>>] : k \in {"unreadable", "truncated", "undecodable"}}

\* data.copy() with the metadata save_cache adds
CacheContent(d, head, count) ==
    [hotspots |-> d.hotspots, hierarchy |-> d.hierarchy,
     git_head |-> head, commit_count |-> count]

\* what an earlier run with --cache left under the key: the analysis of an
\* earlier state of the repository (the same history or the history
\* without its newest commit; for a repository without commits the
\* history it had before it was set up anew; any working tree), with the
\* head and count git reported then, or None for both when those two
\* queries failed
EarlierHistories(h) == IF h = <<>> THEN {h, <<C_bo_ab>>} ELSE {h, Tail(h)}

\* the files a run with --cache writes in the state (h, files)
WrittenNow(h, files, excl) ==
    {JsonFile(CacheContent(Assemble(hs), get_git_head_hash(h), get_git_commit_count(h))) :
        hs \in FreshResults(h, files, excl) \ {<<>>}}

WrittenFiles(h, excl) ==
    UNION {{JsonFile(CacheContent(Assemble(hs), meta[1], meta[2])) :
               hs \in FreshResults(h0, d0, excl) \ {<<>>},
               meta \in {<<get_git_head_hash(h0), get_git_commit_count(h0)>>, <<None, None>>}} :
             h0 \in EarlierHistories(h), d0 \in MainDisks}

\* os.path.exists(cache_path) and the file under the key
FileAt(files, key) == IF key \in DOMAIN files THEN files[key] ELSE AbsentFile

\* load_cache: raised, or the pair (data, is_valid).  UnicodeDecodeError is
\* none of the exceptions the except clause names.
load_cache(files, h, since_date, excl) ==
    LET file == FileAt(files, generate_cache_key(RepoPath, since_date, excl))
    IN  IF file.kind = "absent"
        THEN [raised |-> FALSE, data |-> None, valid |-> FALSE]
        ELSE IF file.kind \in {"unreadable", "truncated"}
        THEN [raised |-> FALSE, data |-> None, valid |-> FALSE]
        ELSE IF file.kind = "undecodable"
        THEN [raised |-> TRUE, data |-> None, valid |-> FALSE]
        ELSE [raised |-> FALSE,
              data |-> Some(file.content),
              valid |-> /\ get_git_head_hash(h) = file.content.git_head
                        /\ get_git_commit_count(h) = file.content.commit_count]

\* open(cache_path, 'w') fails with IOError
WriteFails(file) == file.kind = "unreadable"

\* save_cache when the file can be written: the files afterwards
save_cache(files, h, since_date, excl, d) ==
    LET key == generate_cache_key(RepoPath, since_date, excl)
    IN  [k \in DOMAIN files \cup {key} |->
            IF k = key
            THEN JsonFile(CacheContent(d, get_git_head_hash(h), get_git_commit_count(h)))
            ELSE files[k]]

\* every cache file removed
clear_cache_every_file(files, since_date, excl) ==
    [k \in DOMAIN files |-> AbsentFile]

\* clear_cache(repo_path, since, exclusions): the files afterwards
clear_cache(files, since_date, excl) ==
    LET key == generate_cache_key(RepoPath, since_date, excl)
    IN  [k \in DOMAIN files |-> IF k = key THEN AbsentFile ELSE files[k]]

Since == None

ThisKey == generate_cache_key(RepoPath, Since, <<X_o, X_m>>)
OtherKey == generate_cache_key(RepoPath, Since, OtherExclusions)

Flags == [cache : BOOLEAN, no_cache : BOOLEAN, clear_cache : BOOLEAN]

\* use_cache = args.cache and not args.no_cache
use_cache == args.cache /\ ~args.no_cache

InitMain ==
    /\ InitScorerIdle
    /\ InitMatcherIdle
    /\ InitHierarchyIdle
    /\ query = "none"
    /\ gitOutcome = "ok"
    /\ output = None
    /\ pos = 0
    /\ acc = <<>>
    /\ current = None
    /\ pc = "idle"
    /\ tracked = MainTracked
    /\ exclusions \in MainExclusions
    /\ disk \in MainDisks
    /\ repoKind \in {"not_a_directory", "no_git_dir", "repository"}
    /\ \/ repoKind = "repository" /\ history \in MainHistories
       \/ repoKind # "repository" /\ history = <<>>
    /\ cacheDir \in {"ok", "uncreatable"}
    /\ LET fresh == UNION {FreshResults(h0, disk, exclusions) \ {<<>>} :
                              h0 \in EarlierHistories(history)}
           thisFiles == {AbsentFile} \cup DamagedFiles \cup WrittenFiles(history, exclusions)
           otherFiles == {AbsentFile} \cup
                         UNION {WrittenNow(h0, disk, OtherExclusions) :
                                    h0 \in EarlierHistories(history)}
       IN  /\ \/ /\ cacheDir = "ok"
                 /\ cacheFiles \in {[k \in {ThisKey, OtherKey} |->
                                       IF k = ThisKey THEN this ELSE other] :
                                       this \in thisFiles, other \in otherFiles}
              \/ /\ cacheDir = "uncreatable"
                 /\ cacheFiles = <<>>
           /\ artifact \in {None} \cup {Some(Assemble(hs)) : hs \in fresh}
    /\ args \in Flags
    /\ found = [cacheFiles |-> cacheFiles, artifact |-> artifact]
    /\ cached_data = None
    /\ cache_valid = FALSE
    /\ data = None
    /\ mpc = "start"

restVars == <<scorerVars, matcherVars, historyVars, hierarchyVars>>
envVars == <<repoKind, args, cacheDir, found>>

\* os.path.isdir(repo_path) and os.path.isdir(git_dir), without the second
valid_repository_any_directory(kind) == kind # "not_a_directory"

\* os.path.isdir(repo_path) and os.path.isdir(git_dir)
valid_repository(kind) == kind = "repository"

\* the path is no directory, or holds no .git directory: sys.exit(1)
RejectPath ==
    /\ mpc = "start"
    /\ ~valid_repository(repoKind)
    /\ mpc' = "exit1"
    /\ UNCHANGED <<cacheFiles, artifact, cached_data, cache_valid, data, envVars, restVars>>

\* --clear-cache: get_cache_path cannot create CACHE_DIR, OSError
ClearCacheRaises ==
    /\ mpc = "start"
    /\ valid_repository(repoKind)
    /\ args.clear_cache
    /\ cacheDir = "uncreatable"
    /\ mpc' = "crashed"
    /\ UNCHANGED <<cacheFiles, artifact, cached_data, cache_valid, data, envVars, restVars>>

\* validation passes; --clear-cache removes the file of this analysis
AcceptPath ==
    /\ mpc = "start"
    /\ valid_repository(repoKind)
    /\ ~(args.clear_cache /\ cacheDir = "uncreatable")
    /\ cacheFiles' = IF args.clear_cache
                     THEN clear_cache(cacheFiles, Since, exclusions)
                     ELSE cacheFiles
    /\ mpc' = "cache"
    /\ UNCHANGED <<artifact, cached_data, cache_valid, data, envVars, restVars>>

\* if use_cache is false
SkipCache ==
    /\ mpc = "cache"
    /\ ~use_cache
    /\ mpc' = "analyse"
    /\ UNCHANGED <<cacheFiles, artifact, cached_data, cache_valid, data, envVars, restVars>>

\* load_cache raises: CACHE_DIR cannot be created, or the file's bytes
\* cannot be decoded
LoadCacheRaises ==
    /\ mpc = "cache"
    /\ use_cache
    /\ \/ cacheDir = "uncreatable"
       \/ load_cache(cacheFiles, history, Since, exclusions).raised
    /\ mpc' = "crashed"
    /\ UNCHANGED <<cacheFiles, artifact, cached_data, cache_valid, data, envVars, restVars>>

\* load_cache returns; a valid entry becomes data
LoadCache ==
    /\ mpc = "cache"
    /\ use_cache
    /\ cacheDir = "ok"
    /\ ~load_cache(cacheFiles, history, Since, exclusions).raised
    /\ cached_data' = load_cache(cacheFiles, history, Since, exclusions).data
    /\ cache_valid' = load_cache(cacheFiles, history, Since, exclusions).valid
    /\ data' = IF cache_valid' THEN cached_data' ELSE data
    /\ mpc' = IF cache_valid' THEN "write" ELSE "analyse"
    /\ UNCHANGED <<cacheFiles, artifact, envVars, restVars>>

\* the fresh analysis finds no hotspot: sys.exit(1)
AnalyseEmpty ==
    /\ mpc = "analyse"
    /\ FreshResults(history, disk, exclusions) = {<<>>}
    /\ mpc' = "exit1"
    /\ UNCHANGED <<cacheFiles, artifact, cached_data, cache_valid, data, envVars, restVars>>

\* the fresh analysis: hotspots, hierarchy, data
Analyse ==
    /\ mpc = "analyse"
    /\ \E hs \in FreshResults(history, disk, exclusions) :
          /\ hs # <<>>
          /\ data' = Some(Assemble(hs))
    /\ mpc' = IF use_cache \/ args.cache THEN "save" ELSE "write"
    /\ UNCHANGED <<cacheFiles, artifact, cached_data, cache_valid, envVars, restVars>>

\* save_cache raises: get_cache_path cannot create CACHE_DIR
SaveCacheRaises ==
    /\ mpc = "save"
    /\ cacheDir = "uncreatable"
    /\ mpc' = "crashed"
    /\ UNCHANGED <<cacheFiles, artifact, cached_data, cache_valid, data, envVars, restVars>>

\* save_cache cannot open the file: a warning, None returned
SaveCacheWarns ==
    /\ mpc = "save"
    /\ cacheDir = "ok"
    /\ WriteFails(FileAt(cacheFiles, generate_cache_key(RepoPath, Since, exclusions)))
    /\ mpc' = "write"
    /\ UNCHANGED <<cacheFiles, artifact, cached_data, cache_valid, data, envVars, restVars>>

SaveCache ==
    /\ mpc = "save"
    /\ cacheDir = "ok"
    /\ ~WriteFails(FileAt(cacheFiles, generate_cache_key(RepoPath, Since, exclusions)))
    /\ cacheFiles' = save_cache(cacheFiles, history, Since, exclusions, data.value)
    /\ mpc' = "write"
    /\ UNCHANGED <<artifact, cached_data, cache_valid, data, envVars, restVars>>

\* json.dump(data, f) into hotspot_data.json
WriteOutput ==
    /\ mpc = "write"
    /\ artifact' = data
    /\ mpc' = "done"
    /\ UNCHANGED <<cacheFiles, cached_data, cache_valid, data, envVars, restVars>>

NextMain ==
    \/ RejectPath
    \/ ClearCacheRaises
    \/ AcceptPath
    \/ SkipCache
    \/ LoadCacheRaises
    \/ LoadCache
    \/ AnalyseEmpty
    \/ Analyse
    \/ SaveCacheRaises
    \/ SaveCacheWarns
    \/ SaveCache
    \/ WriteOutput

SpecMain == InitMain /\ [][NextMain]_vars

(***************************************************************************)
(* Properties of the Hotspot Scorer                                        *)
(***************************************************************************)
Returned == {i \in 1..Len(calls) : calls[i].status = "returned"}

OutFiles(h) == {h[i].file : i \in 1..Len(h)}

\* the largest value of a non-empty map, stated without MaxValue
IsMaxOf(v, m) == (\E k \in DOMAIN m : m[k] = v) /\ (\A k \in DOMAIN m : m[k] <= v)

\* C1: every file in the output of calculate_hotspots is a key of both the
\* revision map and the line-count map.
C1_Intersection ==
    \A i \in Returned : \A j \in 1..Len(calls[i].hotspots) :
        /\ calls[i].hotspots[j].file \in DOMAIN revisions
        /\ calls[i].hotspots[j].file \in DOMAIN loc

\* a call returned entries although some file is in the revision map only and
\* some file is in the line-count map only
C1_Witness ==
    /\ \E i \in Returned : Len(calls[i].hotspots) > 0
    /\ DOMAIN revisions \ DOMAIN loc # {}
    /\ DOMAIN loc \ DOMAIN revisions # {}

\* C2: the files of the output are exactly the files in both maps with a line
\* count >= 10, each exactly once.
C2_ExactlyLargeCommonFiles ==
    \A i \in Returned :
        LET h == calls[i].hotspots
            expected == {f \in Files : /\ f \in DOMAIN revisions
                                       /\ f \in DOMAIN loc
                                       /\ loc[f] >= 10}
        IN  /\ OutFiles(h) = expected
            /\ Len(h) = Cardinality(expected)

\* a call returned an entry with exactly 10 lines while a common file with 9
\* lines and a revision count above every output entry's was left out
C2_Witness ==
    \E i \in Returned :
        LET h == calls[i].hotspots
        IN  /\ \E j \in 1..Len(h) : h[j].lines = 10
            /\ \E f \in DOMAIN revisions \cap DOMAIN loc :
                 /\ loc[f] = 9
                 /\ \A j \in 1..Len(h) : revisions[f] > h[j].revisions

\* C3 (as claimed): for non-empty inputs with non-negative counts every call
\* of calculate_hotspots completes and every score lies in [0,1].
C3_CompletesWithScoreInUnitInterval ==
    (/\ DOMAIN revisions # {}
     /\ DOMAIN loc # {}
     /\ \A f \in DOMAIN revisions : revisions[f] >= 0
     /\ \A f \in DOMAIN loc : loc[f] >= 0)
    => \A i \in 1..Len(calls) :
         /\ calls[i].status = "returned"
         /\ \A j \in 1..Len(calls[i].hotspots) :
              /\ calls[i].hotspots[j].hotspot_score >= 0
              /\ calls[i].hotspots[j].hotspot_score <= Scale

\* C4 (as claimed): in a non-empty output the entry with the largest revision
\* count among the output entries has norm_revisions 1.0.
C4_TopOutputEntryIsNormalisedToOne ==
    \A i \in Returned :
        LET h == calls[i].hotspots
        IN  \A j \in 1..Len(h) :
              (\A k \in 1..Len(h) : h[k].revisions <= h[j].revisions)
              => h[j].norm_revisions = Scale

\* C4 (amended): the entry with the largest revision count among the output
\* entries has norm_revisions = its revision count over the largest revision
\* count of the whole revision map, rounded to 4 places; that is 1.0 when the
\* entry attains the maximum of the whole map.
C4_TopOutputEntryNormalisedByWholeMap ==
    \A i \in Returned :
        LET h == calls[i].hotspots
        IN  \A j \in 1..Len(h) : \A m \in RevVals :
              (/\ \A k \in 1..Len(h) : h[k].revisions <= h[j].revisions
               /\ IsMaxOf(m, revisions))
              => /\ 2 * (h[j].norm_revisions * m - Scale * h[j].revisions) <= m
                 /\ 2 * (Scale * h[j].revisions - h[j].norm_revisions * m) <= m
                 /\ h[j].norm_revisions <= Scale
                 /\ (h[j].revisions = m => h[j].norm_revisions = Scale)

\* the top output entry is below the maximum of the revision map, which a file
\* missing from the line-count map holds
C4_Witness ==
    \E i \in Returned :
        LET h == calls[i].hotspots
        IN  /\ Len(h) > 0
            /\ \E f \in DOMAIN revisions \ DOMAIN loc :
                 \A j \in 1..Len(h) : /\ h[j].revisions < revisions[f]
                                      /\ h[j].norm_revisions < Scale
                                      /\ h[j].norm_revisions > 0

C6_SortedDescending ==
    \A i \in Returned :
        LET h == calls[i].hotspots
        IN  \A j \in 1..(Len(h) - 1) :
              h[j].hotspot_score >= h[j + 1].hotspot_score

\* a call returned three entries with three different scores
C6_Witness ==
    \E i \in Returned :
        LET h == calls[i].hotspots
        IN  /\ Len(h) = 3
            /\ h[1].hotspot_score > h[2].hotspot_score
            /\ h[2].hotspot_score > h[3].hotspot_score

\* C7 (as claimed): two calls of calculate_hotspots on identical inputs return
\* identical ordered output, entries of equal score included.
C7_RepeatedCallsAgree ==
    \A i \in Returned : \A j \in Returned :
        calls[i].hotspots = calls[j].hotspots

(***************************************************************************)
(* Properties of the Pattern Matcher                                       *)
(***************************************************************************)
IsLiteralName(d) == d # <<>> /\ \A i \in 1..Len(d) : d[i] \notin {"*", "?", "/", "["}

\* the pattern is d/* for a literal name d
IsDirectoryPattern(p) ==
    /\ Len(p) >= 3
    /\ p[Len(p) - 1] = "/"
    /\ p[Len(p)] = "*"
    /\ IsLiteralName(SubSeq(p, 1, Len(p) - 2))

IsProperSubstring(d, seg) ==
    /\ Len(d) < Len(seg)
    /\ \E k \in 0..(Len(seg) - Len(d)) : SubSeq(seg, k + 1, k + Len(d)) = d

lowerAll(patterns) == [i \in 1..Len(patterns) |-> lower(patterns[i])]
upperAll(patterns) == [i \in 1..Len(patterns) |-> upper(patterns[i])]

\* C8: with the pattern d/* for a literal name d, should_exclude is true for
\* every path that has a directory segment equal to d at any depth, and false
\* for a path in which d occurs only as a proper substring of a segment
\* (names compared as the matcher compares them, without regard to case).
C8_DirectoryPattern ==
    (/\ excluded # "none"
     /\ Len(exclusion_patterns) = 1
     /\ IsDirectoryPattern(exclusion_patterns[1]))
    => LET p == exclusion_patterns[1]
           dl == lower(SubSeq(p, 1, Len(p) - 2))
           parts == split(lower(filepath))
       IN  /\ (\E i \in 1..(Len(parts) - 1) : parts[i] = dl)
              => excluded = "True"
           /\ (/\ \A i \in 1..Len(parts) : parts[i] # dl
               /\ \E i \in 1..Len(parts) : IsProperSubstring(dl, parts[i]))
              => excluded = "False"

\* a/* excluded b/a/b, where the directory a is below the top level
C8_Witness ==
    /\ exclusion_patterns = << <<"a", "/", "*">> >>
    /\ filepath = <<"b", "/", "a", "/", "b">>
    /\ excluded = "True"

\* C9: a pattern without `/` excludes a path whose last segment matches it,
\* at every directory depth.
C9_BarePatternAtAnyDepth ==
    (/\ excluded # "none"
     /\ Len(exclusion_patterns) = 1
     /\ \A i \in 1..Len(exclusion_patterns[1]) : exclusion_patterns[1][i] # "/")
    => LET p == exclusion_patterns[1]
           parts == split(filepath)
           last == parts[Len(parts)]
       IN  (fnmatch(last, p) \/ fnmatch(lower(last), lower(p)))
           => excluded = "True"

\* the bare pattern *a excluded a file two directories down
C9_Witness ==
    /\ exclusion_patterns = << <<"*", "a">> >>
    /\ filepath = <<"b", "/", "b", "/", "b", "a">>
    /\ excluded = "True"

\* C10: the result of should_exclude does not change when the letter case of
\* the path or of the patterns is changed.
C10_CaseInsensitive ==
    excluded # "none"
    => \A fp \in {lower(filepath), upper(filepath)} :
         \A pats \in {lowerAll(exclusion_patterns), upperAll(exclusion_patterns)} :
             should_exclude(fp, pats) <=> (excluded = "True")

\* the upper-case pattern A/* excluded the lower-case path a/b
C10_Witness ==
    /\ exclusion_patterns = << <<"A", "/", "*">> >>
    /\ filepath = <<"a", "/", "b">>
    /\ excluded = "True"

\* the pattern without one trailing "/*", if it ends in "/*"
RemoveDirSuffix(p) ==
    IF Len(p) >= 2 /\ p[Len(p) - 1] = "/" /\ p[Len(p)] = "*"
    THEN SubSeq(p, 1, Len(p) - 2)
    ELSE p

\* the pattern without its trailing run of `/` and `*` characters
RemoveTrailingSlashStar(p) ==
    LET keep == {n \in 0..Len(p) : \A i \in (n + 1)..Len(p) : p[i] \in {"/", "*"}}
        n == CHOOSE m \in keep : \A k \in keep : m <= k
    IN  SubSeq(p, 1, n)

HasSlash(fp) == \E i \in 1..Len(fp) : fp[i] = "/"

\* the segments of the path and the path suffixes that start at a segment
SegmentStarts(fp) == {i \in 1..Len(fp) : i = 1 \/ fp[i - 1] = "/"}
SegmentAt(fp, i) ==
    LET ends == {j \in i..(Len(fp) + 1) : j = Len(fp) + 1 \/ fp[j] = "/"}
        e == CHOOSE j \in ends : \A k \in ends : j <= k
    IN  SubSeq(fp, i, e - 1)
SuffixAt(fp, i) == SubSeq(fp, i, Len(fp))

\* C11 (as claimed): should_exclude is true iff some pattern matches the full
\* path, or matches it behind "*/", or, for some segment of the path (the only
\* segment of a path without `/` included), the segment matches the pattern
\* without its "/*" suffix or the path suffix from that segment matches the
\* pattern.
C11_ThreeRulesOnEveryPath ==
    excluded # "none"
    => ((excluded = "True")
        <=> \E k \in 1..Len(exclusion_patterns) :
              LET pl == lower(exclusion_patterns[k])
                  fl == lower(filepath)
              IN  \/ fnmatch(fl, pl)
                  \/ fnmatch(fl, <<"*", "/">> \o pl)
                  \/ \E i \in SegmentStarts(fl) :
                       \/ fnmatch(SegmentAt(fl, i), RemoveDirSuffix(pl))
                       \/ fnmatch(SuffixAt(fl, i), pl))

\* C11 (amended): the third rule applies only to a path that contains a `/`,
\* and the segment is matched against the pattern without its whole trailing
\* run of `/` and `*` characters.
C11_ThreeRulesAsCoded ==
    excluded # "none"
    => ((excluded = "True")
        <=> \E k \in 1..Len(exclusion_patterns) :
              LET pl == lower(exclusion_patterns[k])
                  fl == lower(filepath)
              IN  \/ fnmatch(fl, pl)
                  \/ fnmatch(fl, <<"*", "/">> \o pl)
                  \/ /\ HasSlash(filepath)
                     /\ \E i \in SegmentStarts(fl) :
                          \/ fnmatch(SegmentAt(fl, i), RemoveTrailingSlashStar(pl))
                          \/ fnmatch(SuffixAt(fl, i), pl))

\* the path a has no `/`: the pattern a/* did not exclude it although its only
\* segment is a
C11_Witness ==
    /\ exclusion_patterns = << <<"a", "/", "*">> >>
    /\ filepath = <<"a">>
    /\ excluded = "False"

(***************************************************************************)
(* Properties of the History Extractor and the Size Extractor              *)
(***************************************************************************)
\* the extractor q has returned after git printed the history
AtReturn(q) == pc = "returned" /\ query = q /\ gitOutcome = "ok"

\* the <<commit, position>> pairs at which the history lists path p
Occurrences(h, p) ==
    {o \in (1..Len(h)) \X (1..2) :
        o[2] <= Len(h[o[1]].files) /\ h[o[1]].files[o[2]].path = p}

ListedPaths(h) == {h[i].files[k].path : i \in 1..Len(h), k \in 1..1}
                    \cup {h[i].files[Len(h[i].files)].path : i \in 1..Len(h)}

\* C12: every path the log lists and the matcher does not exclude has a
\* revision count equal to the number of times the log lists it, whatever
\* the path's name.  (Violated: a path whose name starts with `commit` is
\* dropped by the header filter of the loop.)
C12_CountsEveryListing ==
    AtReturn("revisions") =>
        \A p \in ListedPaths(history) :
            ~should_exclude(p, exclusions) =>
                /\ p \in DOMAIN acc
                /\ acc[p] = Cardinality(Occurrences(history, p))

\* C13: no path that should_exclude rejects under the active patterns is
\* ever a key of the revision map, the churn map, the author map, the
\* commit-list map or the line-count map, while it is built or when it is
\* returned.
C13_NoExcludedKey ==
    \A k \in DOMAIN acc : ~should_exclude(k, exclusions)

C13_Witness ==
    /\ AtReturn("revisions")
    /\ exclusions # <<>>
    /\ P_xo \in ListedPaths(history)
    /\ should_exclude(P_xo, exclusions)
    /\ P_a \in DOMAIN acc
    /\ P_xo \notin DOMAIN acc

\* the fields of the numstat record the churn loop is about to read
ChurnParts == splitOn(output.value[pos], "\t", -1)

AtChurnRecord ==
    /\ query = "churn"
    /\ pc = "loop"
    /\ pos <= Len(output.value)
    /\ Len(ChurnParts) = 3
    /\ ~should_exclude(ChurnParts[3], exclusions)

\* C14: a churn record whose added or deleted count is `-` adds 0 for that
\* field and is otherwise processed normally: the other field's number is
\* added to the file's sum, no other file's sums change, and the parse goes
\* on to the next line.
C14_DashCountsZero ==
    [][(/\ AtChurnRecord
        /\ <<"-">> \in {ChurnParts[1], ChurnParts[2]}
        /\ ~BadCount(ChurnParts[1])
        /\ ~BadCount(ChurnParts[2]))
       => LET f == ChurnParts[3]
              before == IF f \in DOMAIN acc THEN acc[f] ELSE [added |-> 0, deleted |-> 0]
              plusAdded == IF ChurnParts[1] = <<"-">> THEN 0 ELSE IntValue(ChurnParts[1])
              plusDeleted == IF ChurnParts[2] = <<"-">> THEN 0 ELSE IntValue(ChurnParts[2])
          IN  /\ DOMAIN acc' = DOMAIN acc \cup {f}
              /\ acc'[f].added = before.added + plusAdded
              /\ acc'[f].deleted = before.deleted + plusDeleted
              /\ \A k \in DOMAIN acc \ {f} : acc'[k] = acc[k]
              /\ pos' = pos + 1
              /\ pc' = "loop"]_vars

C14_Witness ==
    /\ AtReturn("churn")
    /\ Len(history) = 2
    /\ history[1].files = <<FileRec(P_a, <<"-">>, <<"1", "2">>)>>
    /\ history[2].files = <<FileRec(P_a, <<"3">>, <<"-">>)>>
    /\ acc[P_a] = [added |-> 3, deleted |-> 12]

\* C15: a churn record with a non-numeric added or deleted field (other
\* than `-`) is skipped as a whole: the churn map after the record is the
\* map before it (no new key, no changed sum) and the parse goes on to the
\* next line.  (Violated: the record's file gets an entry before int()
\* raises, and a numeric added field is summed before a bad deleted field
\* is read.)
C15_BadRecordLeavesMapUnchanged ==
    [][(/\ AtChurnRecord
        /\ (BadCount(ChurnParts[1]) \/ BadCount(ChurnParts[2])))
       => (/\ acc' = acc
           /\ pos' = pos + 1
           /\ pc' = "loop")]_vars

\* the commits of the history that list path p
CommitsListing(h, p) == {o[1] : o \in Occurrences(h, p)}

\* C16: the author map's keys are the non-excluded paths the log lists,
\* each commit's own author is associated with every such path of the
\* commit, and a path's count is the number of distinct authors of the
\* commits that list it.  (Violated: a path without `/` and `.` is read as
\* an author line, an author name with a `.` is read as a path.)
C16_CountsAuthorsOfListingCommits ==
    AtReturn("authors") =>
        /\ DOMAIN acc = {p \in ListedPaths(history) : ~should_exclude(p, exclusions)}
        /\ \A p \in DOMAIN acc :
              acc[p] = Cardinality({history[i].author : i \in CommitsListing(history, p)})

\* a commit whose marker payload has the 4 fields hash|author|date|subject
WellFormed(c) == c.nfields >= 4

\* the record of the i-th commit of the history, as the log states it
RecordOf(h, i) ==
    [hash |-> HashOf(i), author |-> h[i].author, date |-> <<"d">>,
     message |-> IF h[i].nfields >= 5 THEN <<"s", "|", "t">> ELSE <<"s">>]

\* the records of the well-formed commits from the i-th on that list p
RECURSIVE RecordsFor(_, _, _)
RecordsFor(h, p, i) ==
    IF i > Len(h) THEN <<>>
    ELSE (IF WellFormed(h[i]) /\ i \in CommitsListing(h, p)
          THEN <<RecordOf(h, i)>> ELSE <<>>) \o RecordsFor(h, p, i + 1)

\* C17: when the history has a marker with fewer than 4 fields, the parse
\* returns; no file has more records than well-formed commits list it, and
\* every record of a file is the record of a well-formed commit that lists
\* it (so the file lines under the short marker are attributed to no
\* record, the preceding commit's included); every well-formed commit
\* after the short marker is recorded for its recognised, non-excluded
\* files.
C17_ShortMarkerSkipped ==
    (/\ query = "commits"
     /\ gitOutcome = "ok"
     /\ \E i \in 1..Len(history) : ~WellFormed(history[i]))
    => /\ pc # "raised"
       /\ pc = "returned" =>
            /\ \A f \in DOMAIN acc :
                 /\ Len(acc[f]) <= Cardinality({j \in CommitsListing(history, f) :
                                                   WellFormed(history[j])})
                 /\ \A n \in 1..Len(acc[f]) :
                       \E j \in CommitsListing(history, f) :
                           WellFormed(history[j]) /\ acc[f][n] = RecordOf(history, j)
            /\ \A i \in 1..Len(history) : \A j \in (i + 1)..Len(history) :
                 (~WellFormed(history[i]) /\ WellFormed(history[j])) =>
                    \A k \in 1..Len(history[j].files) :
                       LET f == history[j].files[k].path
                       IN  (LooksLikePath(f) /\ ~should_exclude(f, exclusions)) =>
                              /\ f \in DOMAIN acc
                              /\ \E n \in 1..Len(acc[f]) : acc[f][n] = RecordOf(history, j)

C17_Witness ==
    /\ AtReturn("commits")
    /\ Len(history) = 2
    /\ WellFormed(history[1])
    /\ ~WellFormed(history[2])
    /\ history[1].files = <<FileRec(P_a, <<"1">>, <<"1">>)>>
    /\ history[2].files = history[1].files
    /\ acc[P_a] = <<RecordOf(history, 1)>>

\* C18: for every non-excluded file the log lists, the commit list holds
\* exactly one record per well-formed commit that lists the file, in the
\* order of the log.  (Violated: a listed file whose path has no `/` and
\* no `.` gets no record at all.)
C18_OneRecordPerCommitInLogOrder ==
    AtReturn("commits") =>
        \A p \in ListedPaths(history) :
            ~should_exclude(p, exclusions) =>
                (IF p \in DOMAIN acc THEN acc[p] ELSE <<>>) = RecordsFor(history, p, 1)

\* the log command ran and failed, or ran and printed nothing
FailsOrPrintsNothing ==
    \/ gitOutcome \in NonZeroExit
    \/ gitOutcome = "ok" /\ history = <<>>

\* C19: if the log command runs but fails or prints nothing, each of the
\* four history queries raises no error and returns an empty map.
C19_EmptyMapOnFailureOrNoOutput ==
    (query \in HistoryQueries /\ FailsOrPrintsNothing) =>
        /\ pc # "raised"
        /\ pc = "returned" => acc = <<>>

C19_Witness ==
    /\ query = "churn"
    /\ gitOutcome = "empty_repository"
    /\ pc = "returned"
    /\ output = None
    /\ acc = <<>>

\* C20: a hard invocation failure (git not found, or the target is not a
\* repository) makes the history query raise; it never returns a result.
\* (Violated: for a directory that is not a repository git exits non-zero,
\* run_git_command returns None and the query returns the empty map.)
C20_HardFailureNeverReturns ==
    (query \in HistoryQueries /\ gitOutcome \in {"command_not_found", "not_a_repository"})
        => pc # "returned"

(***************************************************************************)
(* Properties of the Hierarchy Builder                                     *)
(***************************************************************************)
\* the names on the way from root down to node id, root's own excluded
RECURSIVE NamesTo(_, _)
NamesTo(ns, id) ==
    IF id = RootId THEN <<>>
    ELSE NamesTo(ns, NodeOf(ns, id).parent) \o <<NodeOf(ns, id).data.name>>

\* the nodes of the tree that have no children
Leaves(ns) == {i \in 1..Len(ns) : \A j \in 1..Len(ns) : ns[j].parent # ns[i].id}

\* the leaf at position i was built from the entry e
BuiltFrom(ns, i, e) ==
    /\ "fullPath" \in DOMAIN ns[i].data
    /\ ns[i].data.fullPath = e.file
    /\ ns[i].data.size = e.lines

\* C21: for every leaf of the returned tree, the names of its ancestors
\* below root and its own name joined with `/` are the file path of the
\* entry the leaf was built from, which is also the leaf's fullPath.
C21_LeafPathRoundTrip ==
    hpc = "returned" =>
        \A i \in Leaves(nodes) :
            \E k \in 1..Len(entries) :
                /\ BuiltFrom(nodes, i, entries[k])
                /\ join(NamesTo(nodes, nodes[i].id)) = entries[k].file
                /\ join(NamesTo(nodes, nodes[i].id)) = nodes[i].data.fullPath

C21_Witness ==
    /\ hpc = "returned"
    /\ Len(entries) = 2
    /\ entries[1].file = H_abc
    /\ entries[2].file = H_ac
    /\ \E i \in Leaves(nodes) :
          /\ nodes[i].data.fullPath = H_abc
          /\ NamesTo(nodes, nodes[i].id) = <<H_a, H_b, <<"c">>>>

\* C22: at every point of the construction and in the returned tree no
\* node has two children with the same name, and two leaves whose paths
\* share a directory prefix have the same ancestor node for that prefix.
C22_NoDuplicateChild ==
    /\ \A i \in 1..Len(nodes) : \A j \in 1..Len(nodes) :
          (nodes[i].parent = nodes[j].parent /\ nodes[i].data.name = nodes[j].data.name)
              => i = j
    /\ hpc = "returned" =>
          \A x \in Leaves(nodes) : \A y \in Leaves(nodes) :
             \A a \in 1..Len(nodes) : \A b \in 1..Len(nodes) :
                (/\ IsBelow(nodes, nodes[x].id, nodes[a].id)
                 /\ IsBelow(nodes, nodes[y].id, nodes[b].id)
                 /\ NamesTo(nodes, nodes[a].id) = NamesTo(nodes, nodes[b].id))
                => a = b

C22_Witness ==
    /\ hpc = "returned"
    /\ Len(entries) = 2
    /\ entries[1].file = H_ab
    /\ entries[2].file = H_ac
    /\ Len(nodes) = 3
    /\ Cardinality({i \in 1..Len(nodes) : nodes[i].data.name = H_a}) = 1
    /\ \A i \in Leaves(nodes) : NodeOf(nodes, nodes[i].parent).data.name = H_a

PairwiseDistinctFiles ==
    \A i \in 1..Len(entries) : \A j \in 1..Len(entries) :
        entries[i].file = entries[j].file => i = j

\* C27: for a list of entries with pairwise distinct file paths
\* build_hierarchy does not raise and the returned tree has exactly one
\* leaf per entry.  (Violated: when one entry's path is a directory prefix
\* of another's, the later entry raises KeyError or replaces the directory
\* that held the earlier one.)
C27_OneLeafPerEntry ==
    PairwiseDistinctFiles =>
        /\ hpc # "raised"
        /\ hpc = "returned" =>
              /\ Cardinality(Leaves(nodes)) = Len(entries)
              /\ \A k \in 1..Len(entries) :
                    \E i \in Leaves(nodes) : BuiltFrom(nodes, i, entries[k])

\* ------------------------------------------------------------------
\* Properties of the cache and of main
\* ------------------------------------------------------------------

\* main has just called load_cache and changed no cache file since
JustLoaded ==
    /\ use_cache
    /\ \/ mpc = "analyse"
       \/ mpc = "write" /\ cache_valid

\* the entry stored for this repository, since date and set of exclusions
StoredEntry == cacheFiles[ThisKey]

CurrentHead == get_git_head_hash(history)

CurrentCount == get_git_commit_count(history)

\* C23: load_cache reports the cached data valid exactly when an entry exists
\* for the same (repository, since, exclusions) key and its stored head
\* commit and stored commit count both equal the current ones; on a mismatch
\* the entry is invalid and main recomputes the analysis
C23_ValidIffSameKeyHeadAndCount ==
    JustLoaded =>
        /\ cache_valid <=> /\ StoredEntry.kind = "json"
                           /\ StoredEntry.content.git_head = CurrentHead
                           /\ StoredEntry.content.commit_count = CurrentCount
        /\ cache_valid => mpc = "write" /\ data = Some(StoredEntry.content)
        /\ ~cache_valid => mpc = "analyse" /\ data = None

\* a run whose exclusions were given in the other order reuses the entry
C23_Witness ==
    /\ JustLoaded
    /\ cache_valid
    /\ exclusions = <<X_m, X_o>>
    /\ StoredEntry.content.git_head = Some(history)

\* main stopped on an exception that load_cache or save_cache let through
\* (clear_cache raises only with --clear-cache and a cache directory that
\* cannot be created, and then before anything else)
CacheCallAborted ==
    /\ mpc = "crashed"
    /\ ~(args.clear_cache /\ cacheDir = "uncreatable")

\* C24: a failure to read or parse the cache file makes load_cache return
\* (no data, not valid) so that main runs a fresh analysis, a failure to
\* write it makes save_cache return no path while main still writes the
\* output; neither failure aborts the run
C24_CacheFailuresNeverAbort ==
    /\ ~CacheCallAborted
    /\ (JustLoaded /\ StoredEntry.kind # "json") => ~cache_valid /\ cached_data = None /\ mpc = "analyse"

AfterClearing ==
    [k \in DOMAIN found.cacheFiles |->
        IF k = ThisKey /\ args.clear_cache /\ repoKind = "repository"
        THEN AbsentFile ELSE found.cacheFiles[k]]

\* hotspot_data.json changes only in the step that follows the assembly of
\* hotspots and hierarchy, and becomes that data
WrittenOnlyWhenComputed ==
    [][artifact' # artifact =>
        /\ mpc = "write"
        /\ ~data.isNone
        /\ data.value.hotspots # <<>>
        /\ artifact' = data]_vars

\* C26 as stated: the output is written only after hotspots and hierarchy
\* are computed, and a run that ends on an error exit leaves the earlier
\* hotspot_data.json and every cache file unchanged
C26_ErrorExitChangesNothing ==
    /\ WrittenOnlyWhenComputed
    /\ [](mpc = "exit1" => artifact = found.artifact /\ cacheFiles = found.cacheFiles)

\* C26: the output is written only after hotspots and hierarchy are
\* computed; a run that ends on an error exit leaves the earlier
\* hotspot_data.json unchanged and every cache file unchanged, except that
\* --clear-cache on a valid repository has removed this analysis's entry
C26_ErrorExitChangesOnlyClearedEntry ==
    /\ WrittenOnlyWhenComputed
    /\ [](mpc = "exit1" => artifact = found.artifact /\ cacheFiles = AfterClearing)

\* --clear-cache removed the entry, then the analysis found nothing
C26_Witness ==
    /\ mpc = "exit1"
    /\ args.clear_cache
    /\ cacheDir = "ok"
    /\ found.cacheFiles[ThisKey].kind = "json"
    /\ cacheFiles[ThisKey].kind = "absent"
    /\ cacheFiles[OtherKey] = found.cacheFiles[OtherKey]
    /\ ~artifact.isNone

\* C28: load_cache reports valid only when the current head and the current
\* commit count were both obtained: when either query fails the entry is
\* invalid, whatever the cache file contains or omits
C28_FailedQueryInvalidates ==
    (JustLoaded /\ (CurrentHead.isNone \/ CurrentCount.isNone)) => ~cache_valid

\* C29: whenever main reuses a cache entry, the hotspot list it outputs is
\* one a fresh analysis of the repository's current history and working
\* tree would produce
C29_ReusedEqualsFresh ==
    (mpc = "done" /\ cache_valid) =>
        artifact.value.hotspots \in FreshResults(history, disk, exclusions)

\* main has just assembled the data of a fresh analysis
JustAnalysed ==
    /\ mpc \in {"save", "write"}
    /\ ~cache_valid

\* C30: in every hotspot entry of a fresh run, authors (when present) is at
\* least 1 and at most revisions, and commits has at most revisions records
C30_AuthorsAndCommitsBoundedByRevisions ==
    JustAnalysed =>
        \A i \in 1..Len(data.value.hotspots) :
            LET e == data.value.hotspots[i]
            IN  /\ "authors" \in DOMAIN e => 1 <= e.authors /\ e.authors <= e.revisions
                /\ "commits" \in DOMAIN e => Len(e.commits) <= e.revisions

====
